---- MODULE Spec2Model ----
(***************************************************************************)
(* Extended-Dune collectors: fetch_data_to_dune.py and                     *)
(* efetch_data_to_dune.py.  The model covers the CSV store of both          *)
(* revisions (save_data_with_deduplication, append_to_csv,                  *)
(* save_trading_stats), the retry loops and the orchestration of main.      *)
(*                                                                          *)
(* A table cell is an integer.  Strings that the code only compares or      *)
(* sorts (ISO timestamps, dates, names) are modelled by their rank in the   *)
(* string order; EMPTY is the empty string and NaN is pandas' missing       *)
(* value.  A row is a function from column names to cells.                  *)
(***************************************************************************)
EXTENDS Integers, Sequences, FiniteSets, TLC

\* ------------------------------------------------------------------ bounds
\* Retention caps, scaled down: 100000 rows for a file whose name contains
\* 'markets', 50000 for every other file of fetch_data_to_dune.py, and the
\* max_rows=10000 that efetch's save_trading_stats passes to append_to_csv.
CapMarkets == 4
CapOther == 2
CapETrading == 2
\* efetch: save_markets_data max_rows=50000 and save_tvl_data max_rows=20000,
\* scaled down.
CapEMarkets == 3
CapETvl == 3
\* Most sub-chains of a TVL response in TvlSpec.
MaxSubChains == 2
\* Longest markets response handed to the normalizer in NormSpec.
MaxEntries == 2
\* Longest batch handed to the store in StoreSpec.
MaxBatch == 3
\* main: the order book is fetched for the first 5 markets of a chain
\* (markets[:5]), scaled down; a markets response names up to one more.
TopMarkets == 1
\* main: range(30) days of trading statistics (range(14) in efetch), scaled
\* down.
Lookback == 2
\* main: the clock stops at MaxNow, the first tick of day 11; the run starts
\* one tick before.
MaxNow == 44
MaxNameLen == 2
MaxTrades == 2

\* ------------------------------------------------------------- cell values
\* pandas' missing value: what read_csv yields for an empty field and what
\* concat fills in for a column a frame lacks.
NaN == -1
\* The empty string: item.get('fundingTime', '') when the entry has none.  It
\* sorts before every other string.
EMPTY == -2

\* JSON null, as response.json() gives it: None.
Null == -3
\* A key the JSON object does not have.
Absent == -4

Min(a, b) == IF a < b THEN a ELSE b

\* -------------------------------------------------------------- pandas ops
\* DataFrame.to_csv of one row: a missing value and an empty string are both
\* written as an empty field.
ToCsvRow(r) == [c \in DOMAIN r |-> IF r[c] = NaN THEN EMPTY ELSE r[c]]

\* pd.read_csv of one row: an empty field is parsed as NaN.
ReadCsvRow(r) == [c \in DOMAIN r |-> IF r[c] = EMPTY THEN NaN ELSE r[c]]

ToCsv(rows) == [i \in 1..Len(rows) |-> ToCsvRow(rows[i])]
ReadCsv(rows) == [i \in 1..Len(rows) |-> ReadCsvRow(rows[i])]

\* The columns of a frame built from a list of rows (all rows of one frame
\* have the same columns).
Columns(rows) == IF Len(rows) = 0 THEN {} ELSE DOMAIN rows[1]

\* A row widened to the columns cols, NaN where it had none.
Fill(r, cols) == [c \in cols |-> IF c \in DOMAIN r THEN r[c] ELSE NaN]

\* pd.concat([existing, df], ignore_index=True): existing rows first, the
\* union of the columns, NaN for what a frame lacks.
Concat(existing, df) ==
    LET cols == Columns(existing) \cup Columns(df)
        all == existing \o df
    IN [i \in 1..Len(all) |-> Fill(all[i], cols)]

\* The rows at the indices S, in their order.
RECURSIVE Pick(_, _, _)
Pick(rows, S, i) ==
    IF i > Len(rows) THEN <<>>
    ELSE (IF i \in S THEN <<rows[i]>> ELSE <<>>) \o Pick(rows, S, i + 1)

\* duplicated(subset, keep='last'): a row is dropped when a later row agrees
\* with it on every column of subset (NaN agrees with NaN).
SameKey(a, b, subset) == \A c \in subset : a[c] = b[c]

\* keep='first' instead.
DropDuplicatesFirst(rows, subset) ==
    Pick(rows,
         {i \in 1..Len(rows) :
            \A j \in 1..(i - 1) : ~SameKey(rows[i], rows[j], subset)},
         1)

DropDuplicatesLast(rows, subset) ==
    Pick(rows,
         {i \in 1..Len(rows) :
            \A j \in (i + 1)..Len(rows) : ~SameKey(rows[i], rows[j], subset)},
         1)

\* sort_values(col, ascending=False): greater values first, NaN last, rows
\* with equal values in their order of arrival (numpy sorts arrays this
\* short by insertion, and pandas reverses around the sort to keep ties in
\* place).
GoesBefore(rows, i, j, col) ==
    LET a == rows[i][col]
        b == rows[j][col]
    IN IF a = NaN THEN b = NaN /\ i < j
       ELSE b = NaN \/ a > b \/ (a = b /\ i < j)

SortValuesDesc(rows, col) ==
    [p \in 1..Len(rows) |->
        rows[CHOOSE i \in 1..Len(rows) :
                Cardinality({j \in 1..Len(rows) : GoesBefore(rows, j, i, col)}) = p - 1]]

\* DataFrame.head(n)
HeadRows(rows, n) == SubSeq(rows, 1, Min(n, Len(rows)))

\* ------------------------------------------------------------------- files
\* A file of uploads/: absent, present but not parseable by read_csv, or a
\* CSV table.  rows holds the cells as written (never NaN).
AbsentFile == [st |-> "absent", rows |-> <<>>]
UnreadableFile == [st |-> "unreadable", rows |-> <<>>]
CsvFile(rows) == [st |-> "ok", rows |-> ToCsv(rows)]

FileNames ==
    {"extended_markets_data.csv", "extended_funding_rates.csv",
     "extended_orderbook_snapshots.csv", "extended_trading_stats.csv",
     "extended_tvl_data.csv", "extended_onchain_metrics.csv"}

\* max_rows = 100000 if 'markets' in filename else 50000
max_rows(filename) ==
    IF filename = "extended_markets_data.csv" THEN CapMarkets ELSE CapOther

\* The branch save_data_with_deduplication and append_to_csv take on a file:
\* the else branch (no file), the except branch (read_csv raises) or the try
\* branch.
Branch(f) ==
    IF f.st = "absent" THEN "create"
    ELSE IF f.st = "unreadable" THEN "recreate"
    ELSE "merge"

\* The try branch of save_data_with_deduplication: read, concat, drop
\* duplicates keeping the last, sort newest first, cut to max_rows.
MergeDedup(existing, df, filename, unique_columns) ==
    LET combined == Concat(ReadCsv(existing), df)
        deduped == DropDuplicatesLast(combined, unique_columns)
        sorted == IF "fetched_at" \in Columns(deduped)
                    THEN SortValuesDesc(deduped, "fetched_at")
                  ELSE IF "date" \in Columns(deduped)
                    THEN SortValuesDesc(deduped, "date")
                  ELSE deduped
    IN HeadRows(sorted, max_rows(filename))

\* save_data_with_deduplication(df, filename, unique_columns): the file it
\* leaves.  The else branch and the except branch write df as it is.
CreatesFirstRowOnly(f, df, filename, unique_columns) ==
    IF f.st = "ok" THEN CsvFile(MergeDedup(f.rows, df, filename, unique_columns))
    ELSE CsvFile(HeadRows(df, 1))
LeavesUnreadable(f, df, filename, unique_columns) ==
    IF f.st = "ok" THEN CsvFile(MergeDedup(f.rows, df, filename, unique_columns))
    ELSE IF f.st = "unreadable" THEN f
    ELSE CsvFile(df)
save_data_with_deduplication(f, df, filename, unique_columns) ==
    IF f.st = "ok"
      THEN CsvFile(MergeDedup(f.rows, df, filename, unique_columns))
      ELSE CsvFile(df)

\* The try branch of efetch's append_to_csv: read, concat, sort by timestamp
\* (else fetched_at) newest first, cut to max_rows.  No deduplication.
MergeAppend(existing, df, cap) ==
    LET combined == Concat(ReadCsv(existing), df)
        sorted == IF "timestamp" \in Columns(combined)
                    THEN SortValuesDesc(combined, "timestamp")
                  ELSE IF "fetched_at" \in Columns(combined)
                    THEN SortValuesDesc(combined, "fetched_at")
                  ELSE combined
    IN HeadRows(sorted, cap)

\* append_to_csv(df, file_path, max_rows)
append_to_csv(f, df, cap) ==
    IF f.st = "ok" THEN CsvFile(MergeAppend(f.rows, df, cap)) ELSE CsvFile(df)

\* efetch's save_trading_stats(stats_list): rows whose (date, chain) the
\* file already holds are dropped from the batch, the rest is appended; a
\* file that cannot be read, or that lacks a date or chain column, sends the
\* whole batch to append_to_csv.
save_trading_stats(f, stats_list) ==
    IF Len(stats_list) = 0 THEN f
    ELSE IF f.st = "ok" /\ {"date", "chain"} \subseteq Columns(f.rows)
      THEN LET existing == ReadCsv(f.rows)
               new_data ==
                 Pick(stats_list,
                      {i \in 1..Len(stats_list) :
                         \A j \in 1..Len(existing) :
                            ~SameKey(stats_list[i], existing[j], {"date", "chain"})},
                      1)
           IN IF Len(new_data) > 0 THEN append_to_csv(f, new_data, CapETrading) ELSE f
    ELSE append_to_csv(f, stats_list, CapETrading)

\* -------------------------------------------------------- configuration
MAX_RETRIES == 3
RETRY_DELAY == 2

\* The chains of ENDPOINTS, in the order main visits them: 1 is 'ethereum',
\* 2 is 'starknet'.
Chains == <<1, 2>>

\* The clock counts ticks; a timestamp string (datetime.utcnow().isoformat()
\* + "Z") is modelled by its tick, which orders it as the string is ordered.
\* A minute (fetched_at[:16]) is 2 ticks and a day (the %Y-%m-%d date) is 4.
MinuteOf(t) == t \div 2
DateOf(t) == t \div 4

\* ENDPOINTS[chain]['start_date']: ethereum started long ago, starknet on
\* day 10, inside the window a run of the model looks back over.
start_date(c) == IF c = 1 THEN 0 ELSE 10

\* if check_date >= start_date: the chain is asked for the date.
AlwaysActive(c, d) == d >= 0
IsActive(c, d) == d >= start_date(c)

\* ------------------------------------------------------------- normalizers
\* f"{chain}_{name}_{fetched_at[:16]}"
UniqueId(c, name, t) == (c * 10 + name) * 1000 + MinuteOf(t)

\* normalize_markets_data(markets, chain) at time t, in either revision
\* (the price columns, which the store never reads, are left out).
normalize_markets_data(r, names, c, t) ==
    [i \in 1..Len(names) |->
        IF r = "fetch"
          THEN [unique_id |-> UniqueId(c, names[i], t), fetched_at |-> t,
                chain |-> c, market |-> names[i]]
          ELSE [timestamp |-> t, fetched_at |-> t, chain |-> c, market |-> names[i]]]

\* The records fetch_funding_rates builds from the entries of a response.
FundingRecords(entries, c, t) ==
    [i \in 1..Len(entries) |->
        [chain |-> c, market |-> entries[i].market,
         funding_time |-> entries[i].fundingTime, fetched_at |-> t]]

\* The snapshot fetch_orderbook_snapshots appends for a book with quotes.
Snapshot(c, market, t) == [chain |-> c, market |-> market, fetched_at |-> t]

RECURSIVE SumVolume(_)
SumVolume(trades) ==
    IF Len(trades) = 0 THEN 0
    ELSE (IF Head(trades).tradingVolume = Absent THEN 0 ELSE Head(trades).tradingVolume)
           + SumVolume(Tail(trades))

\* fetch_trading_stats(chain, date): res is what the request returned.  The
\* exhausted request gives a zero row (without the trader columns in
\* fetch_data_to_dune.py, with a timestamp in efetch).
fetch_trading_stats(r, c, d, res, t) ==
    IF r = "fetch"
      THEN IF ~res.ok
             THEN [date |-> d, chain |-> c, daily_volume |-> 0, trades_count |-> 0]
           ELSE IF Len(res.body) > 0
             THEN [date |-> d, chain |-> c,
                   daily_volume |-> SumVolume(res.body),
                   trades_count |-> Len(res.body),
                   unique_traders |->
                     Cardinality({res.body[i].trader : i \in 1..Len(res.body)}
                                   \ {EMPTY, Absent, Null}),
                   avg_trade_size |-> SumVolume(res.body) \div Len(res.body)]
           ELSE [date |-> d, chain |-> c, daily_volume |-> 0, trades_count |-> 0,
                 unique_traders |-> 0, avg_trade_size |-> 0]
      ELSE IF res.ok /\ Len(res.body) > 0
             THEN [date |-> d, chain |-> c, daily_volume |-> SumVolume(res.body),
                   trades_count |-> Len(res.body), timestamp |-> t]
           ELSE [date |-> d, chain |-> c, daily_volume |-> 0, trades_count |-> 0,
                 timestamp |-> t]

\* A chain label of the TVL response: 11 is 'Ethereum', 12 is 'Starknet';
\* lower() turns them into 1 ('ethereum') and 2 ('starknet').  0 is 'total'.
Lower(label) == IF label > 10 THEN label - 10 ELSE label

RECURSIVE ChainTvlRecords(_, _, _)
ChainTvlRecords(r, items, t) ==
    IF Len(items) = 0 THEN <<>>
    ELSE LET it == Head(items)
             rec == IF r = "fetch"
                      THEN [fetched_at |-> t, date |-> DateOf(t),
                            chain |-> Lower(it.chain), tvl_usd |-> it.tvl]
                      ELSE [timestamp |-> t, date |-> DateOf(t),
                            chain |-> Lower(it.chain), tvl_usd |-> it.tvl]
         IN (IF r = "fetch" /\ ~(it.tvl > 0) THEN <<>> ELSE <<rec>>)
              \o ChainTvlRecords(r, Tail(items), t)

\* tvl_records of save_tvl_data(tvl_data) at time t: the total row (in
\* fetch_data_to_dune.py only when tvl > 0), then one row per chainTvls item.
TvlRecords(r, data, t) ==
    (IF r = "fetch"
       THEN IF data.tvl > 0
              THEN <<[fetched_at |-> t, date |-> DateOf(t), chain |-> 0, tvl_usd |-> data.tvl]>>
              ELSE <<>>
       ELSE <<[timestamp |-> t, date |-> DateOf(t), chain |-> 0, tvl_usd |-> data.tvl]>>)
    \o ChainTvlRecords(r, data.chainTvls, t)

\* pd.DataFrame(records): the union of the records' keys, NaN where a record
\* has none.
DataFrame(records) ==
    LET cols == UNION {DOMAIN records[i] : i \in 1..Len(records)}
    IN [i \in 1..Len(records) |-> Fill(records[i], cols)]

\* ------------------------------------------------------------------- state
VARIABLES
    files,      \* uploads/: file name -> file
    target,     \* StoreSpec: the store call under study
    batch,      \* StoreSpec: the rows collected for the next store call
    pre,        \* StoreSpec: the file as the last store call found it
    branch,     \* StoreSpec: the branch the last store call took, or "none"
    run,        \* MainSpec: main's position and local variables
    req,        \* MainSpec: the request loop in progress
    last,       \* MainSpec: the last request loop that returned
    now,        \* MainSpec: the wall clock, in ticks
    hist,       \* MainSpec: what the run has done so far
    arg,        \* NormSpec, TvlSpec: the response a function is called with
    ret,        \* NormSpec, TvlSpec: how the call ended, or NotCalled
    env,        \* UploadSpec: the API key, uploads/ and the collaborator
    up          \* UploadSpec: main of scripts/upload_to_dune.py

storeVars == <<target, batch, pre, branch>>
mainVars == <<run, req, last, now, hist>>
callVars == <<arg, ret>>
uploadVars == <<env, up>>
vars == <<files, target, batch, pre, branch, run, req, last, now, hist, arg, ret, env, up>>

\* No function called yet; a call that returned rows; a call that raised.
NotCalled == [st |-> "none", rows |-> <<>>]
Returned(rows) == [st |-> "returned", rows |-> rows]
Raised == [st |-> "raised", rows |-> <<>>]

\* The upload script not run.
NoUpload == env = <<>> /\ up = <<>>

\* ---------------------------------------------------------- main: the run
Streams == {"markets", "funding", "orderbook", "trading", "tvl"}

\* The tick a run starts at: the last of day 10.
StartTick == MaxNow - 1

\* main before it starts: the lists it fills are empty.
NewRun(r) ==
    [rev |-> r, pc |-> "markets", chain |-> 1, names |-> <<>>, oi |-> 1,
     days_back |-> 0, date |-> 0,
     all_markets_data |-> <<>>, all_funding_data |-> <<>>,
     all_orderbook_data |-> <<>>, trading_stats |-> <<>>,
     onchain_metrics |-> <<>>, tvl_data |-> [ok |-> FALSE, body |-> <<>>]]
IdleRun == [NewRun("fetch") EXCEPT !.pc = "idle"]

\* The request loop before its first attempt, and no loop having returned.
NoRequest == [attempt |-> 0, made |-> 0, failed |-> 0, slept |-> <<>>]
NoReturn == [stage |-> "none", result |-> "none", made |-> 0, failed |-> 0, slept |-> <<>>]

\* History of a run: the files as it found them, the streams of which a
\* request returned a body (ok) or ran out of attempts (failed), and the files
\* it wrote.
NoHistory(f) ==
    [files0 |-> f, ok |-> {}, failed |-> {}, written |-> {}, raised |-> FALSE,
     log |-> <<>>]

\* ------------------------------------------------------- the store, alone
\* The store calls of the two revisions, each fed arbitrary batches:
\*   funding   main's save_data_with_deduplication(funding_df,
\*             "extended_funding_rates.csv", ['chain','market','funding_time'])
\*   trading   main's save_data_with_deduplication(trading_df,
\*             "extended_trading_stats.csv", ['date','chain'])
\*   etrading  efetch's save_trading_stats(trading_stats)
Targets == {"funding", "trading", "etrading"}

FileOf(t) ==
    IF t = "funding" THEN "extended_funding_rates.csv"
    ELSE "extended_trading_stats.csv"

UniqueColumns(t) ==
    IF t = "funding" THEN {"chain", "market", "funding_time"}
    ELSE {"date", "chain"}

\* The records a batch may hold: one chain and one market, the columns the
\* store does not read left out.  funding_time is EMPTY when the API entry
\* has no fundingTime.  An efetch trading record carries the day's volume as
\* seen at its timestamp (the volume of a day grows while the day lasts).
BatchRows(t) ==
    IF t = "funding"
      THEN [chain : {1}, market : {1}, funding_time : {EMPTY, 1},
            fetched_at : {1, 2}]
    ELSE IF t = "trading"
      THEN [date : {1, 2}, chain : {1}, daily_volume : {1, 2}]
    ELSE {[date |-> d, chain |-> 1, daily_volume |-> at, timestamp |-> at] :
            d \in {1, 2}, at \in {1, 2}}

\* The designated sort column of the target's table.
SortColumn(t) ==
    IF t = "funding" THEN "fetched_at" ELSE IF t = "trading" THEN "date" ELSE "timestamp"

Cap(t) ==
    IF t = "etrading" THEN CapETrading ELSE max_rows(FileOf(t))

StoreCall(t, f, df) ==
    IF t = "etrading" THEN save_trading_stats(f, df)
    ELSE save_data_with_deduplication(f, df, FileOf(t), UniqueColumns(t))

StoreInit ==
    /\ files = [n \in FileNames |-> AbsentFile]
    /\ target \in Targets
    /\ batch = <<>>
    /\ pre = AbsentFile
    /\ branch = "none"
    /\ run = IdleRun
    /\ req = NoRequest
    /\ last = NoReturn
    /\ now = StartTick
    /\ hist = NoHistory(files)
    /\ arg = <<>>
    /\ ret = NotCalled
    /\ NoUpload

\* The order main collects a batch in: funding records are stamped one after
\* the other, trading records go back in time from today (and an efetch one
\* is stamped when it is fetched).
InFetchOrder(t, b, r) ==
    IF Len(b) = 0 THEN TRUE
    ELSE LET prev == b[Len(b)]
         IN IF t = "funding" THEN prev.fetched_at <= r.fetched_at
            ELSE IF t = "trading" THEN prev.date >= r.date
            ELSE prev.date >= r.date /\ prev.timestamp <= r.timestamp

\* One more record is fetched and normalized into the batch.
Collect ==
    /\ branch = "none"
    /\ Len(batch) < MaxBatch
    /\ \E r \in BatchRows(target) :
          /\ InFetchOrder(target, batch, r)
          /\ batch' = Append(batch, r)
    /\ UNCHANGED <<files, target, pre, branch>>
    /\ UNCHANGED <<mainVars, callVars, uploadVars>>

\* The store call on the collected batch (main calls it only with a batch
\* that is not empty).
Save ==
    /\ branch = "none"
    /\ Len(batch) > 0
    /\ pre' = files[FileOf(target)]
    /\ branch' = Branch(files[FileOf(target)])
    /\ files' = [files EXCEPT ![FileOf(target)] = StoreCall(target, @, batch)]
    /\ UNCHANGED <<target, batch>>
    /\ UNCHANGED <<mainVars, callVars, uploadVars>>

\* The run ends; the next one starts with an empty batch.
NextRun ==
    /\ branch # "none"
    /\ batch' = <<>>
    /\ branch' = "none"
    /\ pre' = AbsentFile
    /\ UNCHANGED <<files, target>>
    /\ UNCHANGED <<mainVars, callVars, uploadVars>>

\* Between two runs the file is damaged so that read_csv raises.
Damage ==
    /\ branch = "none"
    /\ batch = <<>>
    /\ files[FileOf(target)].st = "ok"
    /\ files' = [files EXCEPT ![FileOf(target)] = UnreadableFile]
    /\ UNCHANGED <<target, batch, pre, branch>>
    /\ UNCHANGED <<mainVars, callVars, uploadVars>>

StoreNext == Collect \/ Save \/ NextRun \/ Damage

StoreSpec == StoreInit /\ [][StoreNext]_vars


\* ------------------------------------------------------------------- main
\* What the API can answer, per endpoint.  A markets response names no
\* market or TopMarkets + 1 of them; an order book response is an object with
\* quotes on both sides, or a list; a trade has a volume, which may be null,
\* and a trader.
MarketsBodies == {[i \in 1..n |-> i] : n \in {0, TopMarkets + 1}}
FundingBodies == {<<[market |-> 1, fundingTime |-> 1]>>}
OrderbookBodies == {[json |-> "object", bids |-> 1, asks |-> 1],
                    [json |-> "list", bids |-> 0, asks |-> 0]}
TradingBodies == {<<[tradingVolume |-> 5, trader |-> 1]>>,
                  <<[tradingVolume |-> Null, trader |-> 1]>>}

\* The responses a fetch_* cannot take apart.  data.get("data", {}) of
\* fetch_orderbook_snapshots raises AttributeError on a list, and
\* float(item.get('tradingVolume', 0)) of fetch_trading_stats raises TypeError
\* on a null volume.
BodyRaises(stage, body) ==
    IF stage = "orderbook" THEN body.json # "object"
    ELSE IF stage = "trading" THEN \E i \in 1..Len(body) : body[i].tradingVolume = Null
    ELSE FALSE
TvlBodies == {[tvl |-> 10, chainTvls |-> <<[chain |-> 11, tvl |-> 6]>>],
              [tvl |-> 10, chainTvls |-> <<>>]}

Bodies(stage) ==
    IF stage = "markets" THEN MarketsBodies
    ELSE IF stage = "funding" THEN FundingBodies
    ELSE IF stage = "orderbook" THEN OrderbookBodies
    ELSE IF stage = "trading" THEN TradingBodies
    ELSE TvlBodies

FetchStages == {"markets", "funding", "orderbook", "trading", "tvl"}

\* The tables as an earlier run of the same revision left them: it ran at
\* tick 40 of day 10 on an empty uploads/ and only ethereum's markets answered.
PriorTrading(r) ==
    LET res == [ok |-> TRUE, body |-> <<[tradingVolume |-> 7, trader |-> 1]>>]
    IN <<fetch_trading_stats(r, 1, 10, res, 40), fetch_trading_stats(r, 2, 10, res, 40),
         fetch_trading_stats(r, 1, 9, res, 40)>>
PriorFiles(r) ==
    [n \in FileNames |->
        IF n = "extended_markets_data.csv"
          THEN CsvFile(normalize_markets_data(r, <<1>>, 1, 40))
        ELSE IF n = "extended_funding_rates.csv" /\ r = "fetch"
          THEN CsvFile(FundingRecords(<<[market |-> 1, fundingTime |-> 1]>>, 1, 40))
        ELSE IF n = "extended_orderbook_snapshots.csv" /\ r = "fetch"
          THEN CsvFile(<<Snapshot(1, 1, 40)>>)
        ELSE IF n = "extended_trading_stats.csv"
          THEN CsvFile(PriorTrading(r))
        ELSE IF n = "extended_tvl_data.csv"
          THEN CsvFile(TvlRecords(r, [tvl |-> 9, chainTvls |-> <<>>], 40))
        ELSE IF n = "extended_onchain_metrics.csv" /\ r = "efetch"
          THEN CsvFile(<<[timestamp |-> 40, chain |-> 1, active_users_24h |-> 0]>>)
        ELSE AbsentFile]

\* uploads/ as runs of both revisions left it, which write the same markets,
\* trading and TVL files: the markets table written by efetch (two markets,
\* no unique_id), and the TVL table written by fetch_data_to_dune.py at tick
\* 36 (day 9) and appended to by efetch at tick 40 (day 10).
CrossFiles ==
    [PriorFiles("fetch") EXCEPT
        !["extended_markets_data.csv"] =
            append_to_csv(AbsentFile,
                          DataFrame(normalize_markets_data("efetch", <<1, 2>>, 1, 40)),
                          CapEMarkets),
        !["extended_tvl_data.csv"] =
            append_to_csv(
                save_data_with_deduplication(
                    AbsentFile,
                    DataFrame(TvlRecords("fetch", [tvl |-> 9, chainTvls |-> <<>>], 36)),
                    "extended_tvl_data.csv", {"date", "chain"}),
                DataFrame(TvlRecords("efetch",
                                     [tvl |-> 9,
                                      chainTvls |-> <<[chain |-> 12, tvl |-> 6]>>], 40)),
                CapETvl)]

MainInit ==
    /\ \E r \in {"fetch", "efetch"} :
          /\ run = NewRun(r)
          /\ files \in {[n \in FileNames |-> AbsentFile], PriorFiles(r),
                        [n \in FileNames |-> UnreadableFile]}
                       \cup (IF r = "fetch" THEN {CrossFiles} ELSE {})
    /\ hist = NoHistory(files)
    /\ req = NoRequest
    /\ last = NoReturn
    /\ now = StartTick
    /\ target = "funding"
    /\ batch = <<>>
    /\ pre = AbsentFile
    /\ branch = "none"
    /\ arg = <<>>
    /\ ret = NotCalled
    /\ NoUpload

\* --- the request loop: make_request_with_retry / retry_request
\* The attempt after which the loop gives up instead of sleeping:
\* `if attempt < MAX_RETRIES - 1: sleep` / `if attempt == MAX_RETRIES - 1: raise`.
GivesUpEarly(attempt) == attempt = MAX_RETRIES - 2
LastAttempt(attempt) == attempt = MAX_RETRIES - 1

\* time.sleep(RETRY_DELAY) in fetch_data_to_dune.py, time.sleep(2 ** attempt)
\* in efetch.
Delay(r, attempt) == IF r = "fetch" THEN RETRY_DELAY ELSE 2 ^ attempt

\* What the loop hands its caller when it gives up: None in
\* fetch_data_to_dune.py, the exception of the last attempt in efetch.
RaisesAlways(r) == r \in {"fetch", "efetch"}
Raises(r) == r = "efetch"
GiveUpOutcome(r) == IF Raises(r) THEN "raise" ELSE "None"

\* Every fetch_* of efetch wraps its body in try/except Exception; the
\* fetch_* of fetch_data_to_dune.py have no handler (and need none for None).
Caught(r) == r = "efetch"

Requesting == run.pc \in FetchStages /\ req.attempt < MAX_RETRIES

\* An attempt fails (network error, timeout or raise_for_status) and the loop
\* sleeps and goes round again.
HttpRetry ==
    /\ Requesting
    /\ ~(run.pc = "trading" /\ ~IsActive(Chains[run.chain], run.date))
    /\ ~LastAttempt(req.attempt)
    /\ req' = [attempt |-> req.attempt + 1, made |-> req.made + 1,
               failed |-> req.failed + 1,
               slept |-> Append(req.slept, Delay(run.rev, req.attempt))]
    /\ UNCHANGED <<files, run, last, now, hist>>
    /\ UNCHANGED <<storeVars, callVars, uploadVars>>

\* The loop returns res to its caller: the body of an attempt that succeeded,
\* or the failure of the last attempt.
Return(res) ==
    /\ Requesting
    /\ \/ /\ res.ok
          /\ last' = [stage |-> run.pc, result |-> "body", made |-> req.made + 1,
                      failed |-> req.failed, slept |-> req.slept]
          /\ hist' = [hist EXCEPT !.ok = @ \cup {run.pc},
                                   !.raised = @ \/ BodyRaises(run.pc, res.body)]
       \/ /\ ~res.ok
          /\ LastAttempt(req.attempt)
          /\ last' = [stage |-> run.pc, result |-> GiveUpOutcome(run.rev),
                      made |-> req.made + 1, failed |-> req.failed + 1,
                      slept |-> req.slept]
          /\ hist' = [hist EXCEPT !.failed = @ \cup {run.pc}]
    /\ req' = NoRequest
    /\ UNCHANGED <<files, now>>
    /\ UNCHANGED <<storeVars, callVars, uploadVars>>

\* Where main goes when a request gave up: on, unless the exception escapes.
Escapes(r) == GiveUpOutcome(r) = "raise" /\ ~Caught(r)

\* The clock moves on while main is between two requests.
Tick ==
    /\ run.pc \in {"markets", "trading_date", "trading"}
    /\ req.made = 0
    /\ now < MaxNow
    /\ now' = now + 1
    /\ UNCHANGED <<files, run, req, last, hist>>
    /\ UNCHANGED <<storeVars, callVars, uploadVars>>


\* --- main, between the requests
Abort(r) == [r EXCEPT !.pc = "aborted"]

\* The end of the body of `for chain in ['ethereum', 'starknet']`.
AfterChain(r) ==
    IF r.chain < Len(Chains)
      THEN [r EXCEPT !.chain = @ + 1, !.pc = "markets", !.names = <<>>, !.oi = 1]
      ELSE [r EXCEPT !.chain = 1, !.pc = "save_markets", !.names = <<>>, !.oi = 1]

\* The end of the body of the inner loop over the chains of one date.
AfterTradingChain(r) ==
    IF r.chain < Len(Chains)
      THEN [r EXCEPT !.chain = @ + 1]
      ELSE [r EXCEPT !.chain = 1, !.days_back = @ + 1, !.pc = "trading_date"]

\* Every market instead of the first ones.
EveryMarket(names) == names

\* markets[:5]
top_markets(names) == HeadRows(names, TopMarkets)

\* markets = fetch_markets_data(chain); if markets: ...
OnMarkets(r, res, t) ==
    LET c == Chains[r.chain]
        markets == IF res.ok THEN res.body ELSE <<>>
        normalized == normalize_markets_data(r.rev, markets, c, t)
    IN IF Len(markets) = 0 THEN AfterChain(r)
       ELSE IF r.rev = "fetch"
         THEN [r EXCEPT !.all_markets_data = @ \o normalized,
                        !.names = markets, !.pc = "funding"]
       ELSE AfterChain([r EXCEPT
                !.all_markets_data = @ \o normalized,
                !.onchain_metrics =
                    Append(@, [timestamp |-> t, chain |-> c, active_users_24h |-> 0])])

\* funding_data = fetch_funding_rates(chain); all_funding_data.extend(...)
OnFunding(r, res, t) ==
    LET recs == IF res.ok THEN FundingRecords(res.body, Chains[r.chain], t) ELSE <<>>
        r2 == [r EXCEPT !.all_funding_data = @ \o recs]
    IN IF Len(top_markets(r.names)) > 0 THEN [r2 EXCEPT !.pc = "orderbook", !.oi = 1]
       ELSE AfterChain(r2)

\* One round of the loop of fetch_orderbook_snapshots over top_markets.
OnOrderbook(r, res, t) ==
    LET top == top_markets(r.names)
        r2 == IF res.ok /\ (res.body.bids > 0 \/ res.body.asks > 0)
                THEN [r EXCEPT !.all_orderbook_data =
                                 Append(@, Snapshot(Chains[r.chain], top[r.oi], t))]
                ELSE r
    IN IF r.oi < Len(top) THEN [r2 EXCEPT !.oi = @ + 1] ELSE AfterChain(r2)

\* stats = fetch_trading_stats(chain, date); trading_stats.append(stats)
OnTrading(r, res, t) ==
    AfterTradingChain([r EXCEPT !.trading_stats =
        Append(@, fetch_trading_stats(r.rev, Chains[r.chain], r.date, res, t))])

\* tvl_data = fetch_tvl_data()
OnTvl(r, res, t) == [r EXCEPT !.tvl_data = res, !.pc = "save_tvl"]

Handle(r, res, t) ==
    IF r.pc = "markets" THEN OnMarkets(r, res, t)
    ELSE IF r.pc = "funding" THEN OnFunding(r, res, t)
    ELSE IF r.pc = "orderbook" THEN OnOrderbook(r, res, t)
    ELSE IF r.pc = "trading" THEN OnTrading(r, res, t)
    ELSE OnTvl(r, res, t)

NoBody == [ok |-> FALSE, body |-> <<>>]

\* What main does with what the request loop gave its fetch_*.  An exception
\* (of the loop, or of the fetch_* on a response it cannot take apart) is
\* caught by the fetch_* in efetch, which then answers as for no data; in
\* fetch_data_to_dune.py nothing catches it and main ends there.
OnReturn(r, res, t) ==
    IF ~res.ok
      THEN (IF Escapes(r.rev) THEN Abort(r) ELSE Handle(r, res, t))
    ELSE IF BodyRaises(r.pc, res.body)
      THEN (IF Caught(r.rev) THEN Handle(r, NoBody, t) ELSE Abort(r))
    ELSE Handle(r, res, t)

\* A fetch_* call of main comes back, with a body or after the loop gave up.
Fetch(stage) ==
    /\ run.pc = stage
    /\ \/ \E b \in Bodies(stage) :
             /\ Return([ok |-> TRUE, body |-> b])
             /\ run' = OnReturn(run, [ok |-> TRUE, body |-> b], now)
       \/ /\ Return(NoBody)
          /\ run' = OnReturn(run, NoBody, now)

FetchMarkets == Fetch("markets")
FetchFunding == Fetch("funding")
FetchOrderbook == Fetch("orderbook")
FetchTvl == Fetch("tvl")
FetchTrading ==
    /\ IsActive(Chains[run.chain], run.date)
    /\ Fetch("trading")

\* date = (datetime.now() - timedelta(days=days_back)).strftime('%Y-%m-%d'),
\* or the end of the loop over days_back.
TradingDate ==
    /\ run.pc = "trading_date"
    /\ run' = IF run.days_back < Lookback
                THEN [run EXCEPT !.date = DateOf(now) - run.days_back,
                                 !.chain = 1, !.pc = "trading"]
                ELSE [run EXCEPT !.pc = "save_trading"]
    /\ UNCHANGED <<files, req, last, now, hist>>
    /\ UNCHANGED <<storeVars, callVars, uploadVars>>

\* check_date < start_date: the chain is not asked for that date.
TradingSkip ==
    /\ run.pc = "trading"
    /\ ~IsActive(Chains[run.chain], run.date)
    /\ run' = AfterTradingChain(run)
    /\ UNCHANGED <<files, req, last, now, hist>>
    /\ UNCHANGED <<storeVars, callVars, uploadVars>>


\* --- main, the writes
\* The records main has for a save step, and what the step is followed by.
SaveStages == {"save_markets", "save_funding", "save_orderbook", "save_trading",
               "save_tvl", "save_onchain"}

\* The markets records saved to the TVL file.
MarketsLast(stream) ==
    IF stream \in {"markets", "tvl"} THEN "extended_tvl_data.csv"
    ELSE IF stream = "funding" THEN "extended_funding_rates.csv"
    ELSE IF stream = "orderbook" THEN "extended_orderbook_snapshots.csv"
    ELSE IF stream = "trading" THEN "extended_trading_stats.csv"
    ELSE "extended_onchain_metrics.csv"

StreamFile(stream) ==
    IF stream = "markets" THEN "extended_markets_data.csv"
    ELSE IF stream = "funding" THEN "extended_funding_rates.csv"
    ELSE IF stream = "orderbook" THEN "extended_orderbook_snapshots.csv"
    ELSE IF stream = "trading" THEN "extended_trading_stats.csv"
    ELSE IF stream = "tvl" THEN "extended_tvl_data.csv"
    ELSE "extended_onchain_metrics.csv"

SaveStream(pc) ==
    IF pc = "save_markets" THEN "markets"
    ELSE IF pc = "save_funding" THEN "funding"
    ELSE IF pc = "save_orderbook" THEN "orderbook"
    ELSE IF pc = "save_trading" THEN "trading"
    ELSE IF pc = "save_tvl" THEN "tvl"
    ELSE "onchain"

\* The order of the statements of main.
AfterSave(r) ==
    IF r.pc = "save_markets" THEN (IF r.rev = "fetch" THEN "save_funding" ELSE "trading_date")
    ELSE IF r.pc = "save_funding" THEN "save_orderbook"
    ELSE IF r.pc = "save_orderbook" THEN "trading_date"
    ELSE IF r.pc = "save_trading" THEN "tvl"
    ELSE IF r.pc = "save_tvl" THEN (IF r.rev = "fetch" THEN "done" ELSE "save_onchain")
    ELSE "done"

\* The list a save step is about; for TVL the records save_tvl_data builds at
\* time t from the response main holds.
Records(r, t) ==
    IF r.pc = "save_markets" THEN r.all_markets_data
    ELSE IF r.pc = "save_funding" THEN r.all_funding_data
    ELSE IF r.pc = "save_orderbook" THEN r.all_orderbook_data
    ELSE IF r.pc = "save_trading" THEN r.trading_stats
    ELSE IF r.pc = "save_tvl"
      THEN (IF r.tvl_data.ok THEN TvlRecords(r.rev, r.tvl_data.body, t) ELSE <<>>)
    ELSE r.onchain_metrics

\* unique_columns of the calls of save_data_with_deduplication.
unique_columns(stream) ==
    IF stream = "markets" THEN {"unique_id"}
    ELSE IF stream = "funding" THEN {"chain", "market", "funding_time"}
    ELSE IF stream = "orderbook" THEN {"chain", "market", "fetched_at"}
    ELSE {"date", "chain"}

\* max_rows of the calls of append_to_csv in efetch (save_onchain_metrics has
\* the 10000 of save_trading_stats).
emax_rows(stream) ==
    IF stream = "markets" THEN CapEMarkets
    ELSE IF stream = "tvl" THEN CapETvl
    ELSE CapETrading

\* Whether save_trading_stats of efetch writes: not when the file is read and
\* every (date, chain) of the batch is in it.
ETradingWrites(f, stats_list) == save_trading_stats(f, stats_list) # f \/ f.st # "ok"

\* The file after the save step on records that are not empty.
Saved(r, f, records) ==
    LET stream == SaveStream(r.pc)
    IN IF r.rev = "fetch"
         THEN save_data_with_deduplication(f, DataFrame(records), StreamFile(stream),
                                           unique_columns(stream))
       ELSE IF stream = "trading" THEN save_trading_stats(f, records)
       ELSE append_to_csv(f, DataFrame(records), emax_rows(stream))

\* `if records: save(...)`, for each of the tables in turn.
TwiceOnFallback(r, f, records) ==
    IF Len(records) = 0 THEN 0 ELSE IF f.st = "unreadable" THEN 2 ELSE 1

\* The number of to_csv calls of a save step: none for an empty list and for
\* efetch trading statistics that bring no new (date, chain); otherwise one,
\* in whichever branch the store takes.
ToCsvCalls(r, f, records) ==
    IF Len(records) = 0 THEN 0
    ELSE IF r.rev = "efetch" /\ r.pc = "save_trading" /\ ~ETradingWrites(f, records) THEN 0
    ELSE 1

Save_ ==
    /\ run.pc \in SaveStages
    /\ LET records == Records(run, now)
           name == StreamFile(SaveStream(run.pc))
           calls == ToCsvCalls(run, files[name], records)
           writes == calls > 0
       IN /\ files' = IF writes THEN [files EXCEPT ![name] = Saved(run, @, records)]
                      ELSE files
          /\ hist' = IF writes
                       THEN [hist EXCEPT !.written = @ \cup {name},
                                         !.log = @ \o [i \in 1..calls |-> name]]
                       ELSE hist
    /\ run' = [run EXCEPT !.pc = AfterSave(run)]
    /\ UNCHANGED <<req, last, now>>
    /\ UNCHANGED <<storeVars, callVars, uploadVars>>

MainNext ==
    \/ HttpRetry
    \/ FetchMarkets
    \/ FetchFunding
    \/ FetchOrderbook
    \/ TradingDate
    \/ TradingSkip
    \/ FetchTrading
    \/ FetchTvl
    \/ Save_
    \/ Tick

MainSpec == MainInit /\ [][MainNext]_vars

\* The process keeps running: main is one thread that executes its next
\* statement, and every HTTP attempt ends (TIMEOUT bounds it).
MainFairSpec == MainSpec /\ WF_vars(MainNext)


\* ------------------------------------------------- the markets normalizer
\* An entry of a markets response: an object or something else; its
\* marketStats an object, missing, null or something else; three of the
\* numeric fields of marketStats, each a number, null or absent.
MarketEntries ==
    {[json |-> "other", name |-> 1, stats |-> "missing",
      lastPrice |-> Absent, bidPrice |-> Absent, askPrice |-> Absent]}
    \cup [json : {"object"}, name : {1}, stats : {"missing", "null", "other"},
          lastPrice : {Absent}, bidPrice : {Absent}, askPrice : {Absent}]
    \cup [json : {"object"}, name : {1}, stats : {"object"},
          lastPrice : {Absent, 0, -5, 101}, bidPrice : {Null, 0, -5, 100},
          askPrice : {Absent, Null, 0, 102}]

\* stats = market.get("marketStats", {}) followed by stats.get(...): the
\* default {} serves a missing key only; None and other values have no get.
EntryRaises(m) == m.json = "object" /\ m.stats \in {"null", "other"}

\* float(stats.get(key, 0) or 0)
Coerce(v) == IF v \in {Absent, Null} \/ v = 0 THEN 0 ELSE v

\* The value of a field of the entry's stats as the row has it.
Field(m, key) == IF m.stats = "object" THEN Coerce(m[key]) ELSE Coerce(Absent)

\* spread_pct, in thousandths of a percent:
\* (askPrice - bidPrice) / lastPrice * 100 if all three are positive, else 0.
SpreadUnguarded(bid, ask, lst) ==
    IF lst # 0 THEN ((ask - bid) * 100000) \div lst ELSE 0
SpreadPct(bid, ask, lst) ==
    IF bid > 0 /\ ask > 0 /\ lst > 0 THEN ((ask - bid) * 100000) \div lst ELSE 0

\* The row normalize_markets_data builds for an entry that is an object.
normalize_market(r, m, c, t) ==
    LET prices == [chain |-> c, market |-> m.name,
                   lastPrice |-> Field(m, "lastPrice"),
                   bidPrice |-> Field(m, "bidPrice"),
                   askPrice |-> Field(m, "askPrice"),
                   spread_pct |-> SpreadPct(Field(m, "bidPrice"), Field(m, "askPrice"),
                                            Field(m, "lastPrice"))]
    IN IF r = "fetch"
         THEN [c2 \in DOMAIN prices \cup {"unique_id", "fetched_at"} |->
                 IF c2 = "unique_id" THEN UniqueId(c, m.name, t)
                 ELSE IF c2 = "fetched_at" THEN t ELSE prices[c2]]
         ELSE [c2 \in DOMAIN prices \cup {"timestamp", "fetched_at"} |->
                 IF c2 \in {"timestamp", "fetched_at"} THEN t ELSE prices[c2]]

\* normalize_markets_data(markets, chain) on the entries of a response: it
\* raises at the first entry it cannot take apart, else returns the rows of
\* the entries that are objects, in order.
NormalizeMarkets(r, markets, c, t) ==
    IF \E i \in 1..Len(markets) : EntryRaises(markets[i]) THEN Raised
    ELSE LET objects == Pick(markets, {i \in 1..Len(markets) : markets[i].json = "object"}, 1)
         IN Returned([i \in 1..Len(objects) |-> normalize_market(r, objects[i], c, t)])

\* NormSpec: a markets response is put together entry by entry, then
\* normalized by one of the two revisions.
NormInit ==
    /\ arg = <<>>
    /\ ret = NotCalled
    /\ files = [n \in FileNames |-> AbsentFile]
    /\ target = "funding"
    /\ batch = <<>>
    /\ pre = AbsentFile
    /\ branch = "none"
    /\ run = IdleRun
    /\ req = NoRequest
    /\ last = NoReturn
    /\ now = StartTick
    /\ hist = NoHistory(files)
    /\ NoUpload

NormEntry ==
    /\ ret = NotCalled
    /\ Len(arg) < MaxEntries
    /\ \E m \in MarketEntries : arg' = Append(arg, m)
    /\ UNCHANGED <<files, storeVars, mainVars, ret, uploadVars>>

NormCall ==
    /\ ret = NotCalled
    /\ \E r \in {"fetch", "efetch"} : ret' = NormalizeMarkets(r, arg, 1, now)
    /\ UNCHANGED <<files, storeVars, mainVars, arg, uploadVars>>

NormNext == NormEntry \/ NormCall

NormSpec == NormInit /\ [][NormNext]_vars


\* --------------------------------------------------- the TVL normalization
\* The chain labels a TVL response may report ('Ethereum', 'ethereum',
\* 'Starknet'), and the values: an aggregate or a sub-chain may stand at 0.
TvlLabels == {11, 1, 12}
TvlValues == {0, 6}

\* TvlSpec: a TVL response is put together (its aggregate, then one
\* sub-chain after the other, each label once as the keys of a JSON object),
\* then save_tvl_data of one of the two revisions builds tvl_records from it.
TvlInit ==
    /\ arg \in [tvl : {0, 10}, chainTvls : {<<>>}]
    /\ ret = NotCalled
    /\ files = [n \in FileNames |-> AbsentFile]
    /\ target = "funding"
    /\ batch = <<>>
    /\ pre = AbsentFile
    /\ branch = "none"
    /\ run = IdleRun
    /\ req = NoRequest
    /\ last = NoReturn
    /\ now = StartTick
    /\ hist = NoHistory(files)
    /\ NoUpload

TvlSubChain ==
    /\ ret = NotCalled
    /\ Len(arg.chainTvls) < MaxSubChains
    /\ \E l \in TvlLabels, v \in TvlValues :
          /\ \A i \in 1..Len(arg.chainTvls) : arg.chainTvls[i].chain # l
          /\ arg' = [arg EXCEPT !.chainTvls = Append(@, [chain |-> l, tvl |-> v])]
    /\ UNCHANGED <<files, storeVars, mainVars, ret, uploadVars>>

TvlCall ==
    /\ ret = NotCalled
    /\ \E r \in {"fetch", "efetch"} : ret' = Returned(TvlRecords(r, arg, now))
    /\ UNCHANGED <<files, storeVars, mainVars, arg, uploadVars>>

TvlNext == TvlSubChain \/ TvlCall

TvlSpec == TvlInit /\ [][TvlNext]_vars

\* ------------------------------------------- fetch_trading_stats, alone
\* The entries of a trading-stats response: the volume and the trader may be
\* missing, the trader may be ''.
TradeEntries == [tradingVolume : {Absent, 0, 5}, trader : {Absent, EMPTY, 1, 2}]

\* What make_request_with_retry gave: None (or {}), an object without 'data',
\* or an object with the list 'data'.
Payloads == {"none", "nodata", "data"}

TradeInit ==
    /\ arg \in [payload : Payloads, data : {<<>>}]
    /\ ret = NotCalled
    /\ files = [n \in FileNames |-> AbsentFile]
    /\ target = "funding"
    /\ batch = <<>>
    /\ pre = AbsentFile
    /\ branch = "none"
    /\ run = IdleRun
    /\ req = NoRequest
    /\ last = NoReturn
    /\ now = StartTick
    /\ hist = NoHistory(files)
    /\ NoUpload

TradeEntry ==
    /\ ret = NotCalled
    /\ arg.payload = "data"
    /\ Len(arg.data) < MaxTrades
    /\ \E e \in TradeEntries : arg' = [arg EXCEPT !.data = Append(@, e)]
    /\ UNCHANGED <<files, storeVars, mainVars, ret, uploadVars>>

\* stats = fetch_trading_stats(chain, date) of fetch_data_to_dune.py
TradeCall ==
    /\ ret = NotCalled
    /\ ret' = Returned(<<fetch_trading_stats("fetch", 1, DateOf(now),
                             [ok |-> arg.payload # "none", body |-> arg.data], now)>>)
    /\ UNCHANGED <<files, storeVars, mainVars, arg, uploadVars>>

TradeNext == TradeEntry \/ TradeCall

TradeSpec == TradeInit /\ [][TradeNext]_vars

\* ------------------------------------------- scripts/upload_to_dune.py: main
\* A column name is a sequence of characters: "a" stands for the letters and
\* digits, "." for every other character that is neither a space nor a hyphen.
Chars == {"a", " ", "-", "."}
ColumnNames == UNION {[1..n -> Chars] : n \in 1..MaxNameLen}

RECURSIVE LStrip(_)
LStrip(s) == IF Len(s) > 0 /\ Head(s) = " " THEN LStrip(Tail(s)) ELSE s

RECURSIVE RStrip(_)
RStrip(s) ==
    IF Len(s) > 0 /\ s[Len(s)] = " " THEN RStrip(SubSeq(s, 1, Len(s) - 1)) ELSE s

\* str.replace(old, new) on one-character strings.
Replace(s, old, new) == [i \in 1..Len(s) |-> IF s[i] = old THEN new ELSE s[i]]

\* col.strip().replace(' ', '_').replace('-', '_')
CleanColumn(col) == Replace(Replace(RStrip(LStrip(col)), " ", "_"), "-", "_")

\* file_mappings, in the order of the dict.
file_mappings ==
    <<"extended_markets_data.csv", "extended_trading_stats.csv",
      "extended_tvl_data.csv", "FEDFUNDS.csv">>

\* The outcomes of the dune-client path (the import fails, the read or the
\* upload raises, or upload_csv returns) and of subprocess.run on curl.
ClientOutcomes == {"ok", "ImportError", "Exception"}
CurlOutcomes == {"rc0", "rc1", "raises"}

NothingSent == [via |-> "none", columns |-> <<>>]

\* upload_via_curl: the file goes to curl as it is on disk.
upload_via_curl(file, header, curl) ==
    IF curl = "raises" THEN [result |-> FALSE, sent |-> NothingSent]
    ELSE [result |-> curl = "rc0",
          sent |-> [via |-> "curl",
                    columns |-> IF file = "ok" THEN <<header>> ELSE <<>>]]

\* upload_csv_to_dune_simple: the dune-client path with the columns cleaned,
\* and the curl path when the import, the read or the upload raises.
upload_csv_to_dune_simple(file, header, client, curl) ==
    IF file = "absent" THEN [result |-> FALSE, sent |-> NothingSent]
    ELSE IF client = "ok" /\ file = "ok"
      THEN [result |-> TRUE,
            sent |-> [via |-> "dune-client", columns |-> <<CleanColumn(header)>>]]
    ELSE upload_via_curl(file, header, curl)

\* What main returns after the loop; AllOrNothing returns True only when
\* every upload succeeded.
AllOrNothing(success_count, total_files) ==
    total_files # 0 /\ success_count = total_files
Summary(success_count, total_files) ==
    IF total_files = 0 THEN FALSE
    ELSE IF success_count = total_files THEN TRUE
    ELSE success_count > 0

\* sys.exit(0 if success else 1)
ExitStatus(success) == IF success THEN 0 ELSE 1

UploadStart ==
    [pc |-> "start", i |-> 1, success_count |-> 0, total_files |-> 0,
     uploaded |-> {}, sent |-> NothingSent, status |-> -1]

\* The environment of a run: DUNE_API_KEY, uploads (missing, a directory, or
\* something that is not a directory), the mapped files in it, and their
\* header (one column).
UploadInit ==
    /\ env \in [api_key : BOOLEAN, uploads : {"missing", "dir", "file"},
                files : [1..Len(file_mappings) -> {"absent", "unreadable", "ok"}],
                header : ColumnNames]
    /\ env.uploads # "dir" => \A i \in 1..Len(file_mappings) : env.files[i] = "absent"
    /\ (\A i \in 1..Len(file_mappings) : env.files[i] # "ok") => env.header = <<"a">>
    /\ up = UploadStart
    /\ files = [n \in FileNames |-> AbsentFile]
    /\ target = "funding"
    /\ batch = <<>>
    /\ pre = AbsentFile
    /\ branch = "none"
    /\ run = IdleRun
    /\ req = NoRequest
    /\ last = NoReturn
    /\ now = StartTick
    /\ hist = NoHistory(files)
    /\ arg = <<>>
    /\ ret = NotCalled

\* The checks before the loop: no key or no uploads/ returns False; uploads
\* that is not a directory makes os.listdir raise, which ends the process
\* with status 1.
UploadChecks ==
    /\ up.pc = "start"
    /\ up' = IF ~env.api_key \/ env.uploads # "dir"
               THEN [up EXCEPT !.pc = "done", !.status = ExitStatus(FALSE)]
               ELSE [up EXCEPT !.pc = "loop"]
    /\ UNCHANGED <<files, storeVars, mainVars, callVars, env>>

\* One iteration of `for filename, table_name in file_mappings.items()`.
UploadFile ==
    /\ up.pc = "loop"
    /\ up.i <= Len(file_mappings)
    /\ IF env.files[up.i] = "absent"
         THEN up' = [up EXCEPT !.i = @ + 1]
         ELSE \E client \in ClientOutcomes, curl \in CurlOutcomes :
                LET u == upload_csv_to_dune_simple(env.files[up.i], env.header,
                                                   client, curl)
                IN up' = [up EXCEPT
                            !.i = @ + 1,
                            !.total_files = @ + 1,
                            !.success_count = IF u.result THEN @ + 1 ELSE @,
                            !.uploaded = IF u.result THEN @ \cup {file_mappings[up.i]}
                                         ELSE @,
                            !.sent = u.sent]
    /\ UNCHANGED <<files, storeVars, mainVars, callVars, env>>

\* The summary after the loop and sys.exit.
UploadExit ==
    /\ up.pc = "loop"
    /\ up.i > Len(file_mappings)
    /\ up' = [up EXCEPT !.pc = "done",
                        !.status = ExitStatus(Summary(up.success_count, up.total_files))]
    /\ UNCHANGED <<files, storeVars, mainVars, callVars, env>>

UploadNext == UploadChecks \/ UploadFile \/ UploadExit

UploadSpec == UploadInit /\ [][UploadNext]_vars

\* ------------------------------------------------------ claims on the store
\* The table under study in StoreSpec and the calls that go through
\* save_data_with_deduplication.
TheFile == files[FileOf(target)]
FetchStore == target \in {"funding", "trading"}

\* The rows of a table (or CSV-written batch) holding the key of row r.
WithKey(rows, r, subset) == {i \in 1..Len(rows) : SameKey(rows[i], r, subset)}

\* The last index of the batch holding the key of batch[i].
LastOfKey(i) ==
    CHOOSE j \in WithKey(batch, batch[i], UniqueColumns(target)) :
        \A k \in WithKey(batch, batch[i], UniqueColumns(target)) : k <= j

\* C1: the table written by save_data_with_deduplication never holds two
\* rows that agree on every column of unique_columns.
C1_NoDuplicateKeys ==
    (FetchStore /\ TheFile.st = "ok") =>
        \A i, j \in 1..Len(TheFile.rows) :
            i < j => ~SameKey(TheFile.rows[i], TheFile.rows[j], UniqueColumns(target))

\* C2: after every store call of either revision the table has at most
\* max_rows rows.
C2_RowCountWithinCap ==
    TheFile.st = "ok" => Len(TheFile.rows) <= Cap(target)

\* C3: the table written by save_data_with_deduplication is in
\* non-increasing order of its sort column (fetched_at, else date).
C3_SortedNewestFirst ==
    (FetchStore /\ TheFile.st = "ok") =>
        \A i, j \in 1..Len(TheFile.rows) :
            i < j => TheFile.rows[i][SortColumn(target)] >= TheFile.rows[j][SortColumn(target)]

\* C4: once a batch has been saved, saving the same batch again leaves the
\* table as it is (same rows, same order).
C4_SecondSaveChangesNothing ==
    (FetchStore /\ branch # "none") =>
        StoreCall(target, TheFile, batch) = TheFile

\* C5: after a merge into a readable table, a key that was in the table and
\* is in the batch has exactly one row, the batch's last row of that key.
C5_NewBatchWins ==
    (FetchStore /\ branch = "merge") =>
        \A i \in 1..Len(batch) :
            WithKey(pre.rows, ToCsvRow(batch[i]), UniqueColumns(target)) # {} =>
                \E j \in 1..Len(TheFile.rows) :
                    /\ TheFile.rows[j] = ToCsvRow(batch[LastOfKey(i)])
                    /\ WithKey(TheFile.rows, ToCsvRow(batch[i]), UniqueColumns(target)) = {j}

\* C6: after efetch's save_trading_stats on a readable file, a (date, chain)
\* that was in the file and is in the batch has one row, with the
\* daily_volume of the batch.
C6_ETradingNewVolume ==
    (target = "etrading" /\ branch = "merge") =>
        \A i \in 1..Len(batch) :
            WithKey(pre.rows, batch[i], {"date", "chain"}) # {} =>
                \E j \in 1..Len(TheFile.rows) :
                    /\ WithKey(TheFile.rows, batch[i], {"date", "chain"}) = {j}
                    /\ \E k \in WithKey(batch, batch[i], {"date", "chain"}) :
                          TheFile.rows[j]["daily_volume"] = batch[k]["daily_volume"]

\* C7: of a stored record and a batch record with the same key and different
\* fetched_at, only the one with the greater fetched_at is in the table
\* after the merge, whichever of the two it is.
C7_LaterFetchedAtSurvives ==
    (target = "funding" /\ branch = "merge") =>
        \A e \in 1..Len(pre.rows), i \in 1..Len(batch) :
            LET old == pre.rows[e]
                new == ToCsvRow(batch[i])
                later == IF old["fetched_at"] > new["fetched_at"] THEN old ELSE new
            IN (SameKey(old, new, UniqueColumns(target))
                  /\ old["fetched_at"] # new["fetched_at"]) =>
                 /\ \E j \in 1..Len(TheFile.rows) : TheFile.rows[j] = later
                 /\ \A j \in WithKey(TheFile.rows, new, UniqueColumns(target)) :
                        TheFile.rows[j] = later

\* ------------------------------------------------------- claims on the run
\* main has a next step: a request to make (or a chain to skip), a date to
\* compute or a table to save.  These are the guards of the actions of
\* MainNext other than Tick.
HasNextStep ==
    \/ Requesting
    \/ run.pc = "trading" /\ ~IsActive(Chains[run.chain], run.date)
    \/ run.pc = "trading_date"
    \/ run.pc \in SaveStages

\* Every request the run made for the stream ran out of attempts.
AllExhausted(s) == s \in hist.failed /\ s \notin hist.ok

\* The run collected at least one record for the stream.
Collected(s) ==
    IF s = "markets" THEN Len(run.all_markets_data) > 0
    ELSE IF s = "funding" THEN Len(run.all_funding_data) > 0
    ELSE IF s = "orderbook" THEN Len(run.all_orderbook_data) > 0
    ELSE IF s = "trading" THEN Len(run.trading_stats) > 0
    ELSE run.tvl_data.ok

\* C8: when main of fetch_data_to_dune.py is done, the table of every stream of which every request
\* ran out of attempts is what it was before the run (absent if it was absent).
C8_SkippedStreamUntouched ==
    (run.rev = "fetch" /\ run.pc = "done") =>
        \A s \in Streams :
            AllExhausted(s) => files[StreamFile(s)] = hist.files0[StreamFile(s)]

\* C9: a request loop makes between 1 and MAX_RETRIES attempts; every attempt
\* before the one it returns at has failed, so it returns the body at the
\* first success; and it gives None (fetch_data_to_dune.py) or raises (efetch)
\* only when exactly MAX_RETRIES attempts were made and all of them failed.
C9_BoundedRetry ==
    /\ req.made < MAX_RETRIES
    /\ req.failed = req.made
    /\ last.result # "none" => (last.made >= 1 /\ last.made <= MAX_RETRIES)
    /\ last.result = "body" => last.made = last.failed + 1
    /\ last.result \in {"None", "raise"} =>
          (last.made = MAX_RETRIES /\ last.failed = MAX_RETRIES)
    /\ last.result = "None" => run.rev = "fetch"
    /\ last.result = "raise" => run.rev = "efetch"

\* A loop of fetch_data_to_dune.py that has given up: three attempts, two
\* sleeps between them.
C9_GaveUpAfterThree ==
    /\ last.result = "None"
    /\ last.made = MAX_RETRIES
    /\ Len(last.slept) = MAX_RETRIES - 1

C11_MalformedResponseIsolated ==
    run.rev = "fetch" => run.pc # "aborted"

\* The records the run has for a stream's table: the list main saves.
StreamRecords(s) ==
    IF s = "markets" THEN run.all_markets_data
    ELSE IF s = "funding" THEN run.all_funding_data
    ELSE IF s = "orderbook" THEN run.all_orderbook_data
    ELSE IF s = "trading" THEN run.trading_stats
    ELSE IF run.tvl_data.ok THEN TvlRecords(run.rev, run.tvl_data.body, now)
    ELSE <<>>

\* C12: a table the run found unreadable and saved to holds exactly the rows
\* of the run's batch for it, and the save never ends main: main stops early
\* only on a response a fetch_* raised on.
C12_UnreadableReplacedByBatch ==
    /\ \A s \in Streams :
          (hist.files0[StreamFile(s)].st = "unreadable"
             /\ StreamFile(s) \in hist.written)
          => files[StreamFile(s)] = CsvFile(DataFrame(StreamRecords(s)))
    /\ run.pc = "aborted" => hist.raised

\* A run that found every table unreadable is done: the markets table was
\* replaced by the batch, and the tables after it were saved too.
C12_ReplacedAndWentOn ==
    /\ run.pc = "done"
    /\ hist.files0["extended_markets_data.csv"].st = "unreadable"
    /\ files["extended_markets_data.csv"] = CsvFile(DataFrame(run.all_markets_data))
    /\ Len(run.all_markets_data) > 0
    /\ {"extended_markets_data.csv", "extended_trading_stats.csv",
        "extended_tvl_data.csv"} \subseteq hist.written

\* The (date, chain) pairs of the trading batch, and the pair being requested.
Emitted == {<<run.trading_stats[i].date, run.trading_stats[i].chain>> :
               i \in 1..Len(run.trading_stats)}
TradingLoopOver == run.pc \in {"save_trading", "tvl", "save_tvl", "save_onchain", "done"}

\* C13: no trading request is made for, and no record of the trading batch
\* has, a date before the start_date of its chain; and once the loop is over
\* the batch has starknet's start date itself.
C13_BackfillBoundary ==
    /\ \A p \in Emitted : p[1] >= start_date(p[2])
    /\ (run.pc = "trading" /\ req.made > 0) => run.date >= start_date(Chains[run.chain])
    /\ TradingLoopOver => <<start_date(2), 2>> \in Emitted

\* The loop is over; it asked starknet for its start date and for no day
\* before, while ethereum was asked for the day before.
C13_StarknetFromStartDate ==
    /\ TradingLoopOver
    /\ <<start_date(2), 2>> \in Emitted
    /\ <<start_date(2) - 1, 1>> \in Emitted
    /\ <<start_date(2) - 1, 2>> \notin Emitted

\* C14: the trading batch is the enumeration from one anchor date, the date
\* of the run's first trading request: no (date, chain) pair twice, and when
\* the loop is over exactly the pairs (anchor - d, chain), d below Lookback,
\* of the chains active on that date.
C14_EnumerationFromOneAnchor ==
    /\ \A i, j \in 1..Len(run.trading_stats) :
          i < j => <<run.trading_stats[i].date, run.trading_stats[i].chain>>
                     # <<run.trading_stats[j].date, run.trading_stats[j].chain>>
    /\ (TradingLoopOver /\ Len(run.trading_stats) > 0) =>
          Emitted = {p \in {<<run.trading_stats[1].date - d, c>> :
                               d \in 0..(Lookback - 1), c \in {1, 2}} :
                        p[1] >= start_date(p[2])}

\* ------------------------------------------------ claims on the normalizer
\* C15: normalize_markets_data raises on no list of entries.
C15_NormalizerNeverRaises == ret.st # "raised"

\* The entries of the response that are objects, in order: those a row is
\* built for.
ArgObjects == Pick(arg, {i \in 1..Len(arg) : arg[i].json = "object"}, 1)

\* The number is there and is strictly positive.
Positive(v) == v \notin {Absent, Null} /\ v > 0

\* C16: in every row the normalizer returns, spread_pct is
\* (askPrice - bidPrice) / lastPrice * 100 (here in thousandths) when the
\* entry's bidPrice, askPrice and lastPrice are all there and positive, and 0
\* in every other case.
C16_SpreadComputation ==
    ret.st = "returned" =>
        /\ Len(ret.rows) = Len(ArgObjects)
        /\ \A i \in 1..Len(ret.rows) :
              LET m == ArgObjects[i]
              IN ret.rows[i].spread_pct =
                   IF m.stats = "object" /\ Positive(m.bidPrice)
                        /\ Positive(m.askPrice) /\ Positive(m.lastPrice)
                     THEN ((m.askPrice - m.bidPrice) * 100000) \div m.lastPrice
                     ELSE 0

\* Two rows came back: bid 100, ask 102, last 101 gives 1.980 percent, and
\* an entry with a zero bid gives 0.
C16_SpreadOfExample ==
    /\ ret.st = "returned"
    /\ Len(ret.rows) = 2
    /\ ArgObjects[1].bidPrice = 100 /\ ArgObjects[1].askPrice = 102
    /\ ArgObjects[1].lastPrice = 101
    /\ ret.rows[1].spread_pct = 1980
    /\ ArgObjects[2].bidPrice = 0 /\ ArgObjects[2].lastPrice = 101
    /\ ret.rows[2].spread_pct = 0

\* ------------------------------------------------ further claims on the run
\* C17: the records main of fetch_data_to_dune.py has written into the markets,
\* the funding or the order book table in one run all have the same fetched_at.
C17_SharedBatchTimestamp ==
    run.rev = "fetch" =>
        \A s \in {"markets", "funding", "orderbook"} :
            StreamFile(s) \in hist.written =>
                \A i, j \in 1..Len(StreamRecords(s)) :
                    StreamRecords(s)[i].fetched_at = StreamRecords(s)[j].fetched_at

\* ---------------------------------------------- further claims on the store
\* The batch has pairwise distinct keys and is no longer than the cap.
DistinctWithinCap ==
    /\ Len(batch) <= Cap(target)
    /\ \A i, j \in 1..Len(batch) :
          i < j => ~SameKey(batch[i], batch[j], UniqueColumns(target))

\* C18: save_data_with_deduplication on no file, with a batch of n records of
\* distinct keys, n within the cap, creates a table of exactly n rows: every
\* record of the batch is a row, every row is a record of the batch, field by
\* field, and the header is the records' field names.
C18_FreshTableIsTheBatch ==
    (FetchStore /\ branch = "create" /\ DistinctWithinCap) =>
        /\ TheFile.st = "ok"
        /\ Len(TheFile.rows) = Len(batch)
        /\ {TheFile.rows[i] : i \in 1..Len(TheFile.rows)}
             = {batch[i] : i \in 1..Len(batch)}
        /\ Columns(TheFile.rows) = Columns(batch)

\* A table just created from two funding records of different funding_time.
C18_TwoRecordsCreated ==
    /\ target = "funding"
    /\ branch = "create"
    /\ DistinctWithinCap
    /\ Len(batch) = 2
    /\ Len(TheFile.rows) = 2

\* ------------------------------------------------------- claims on the TVL
\* C19: from a response with a positive aggregate and k sub-chains,
\* save_tvl_data builds 1 + k records, one of them labelled 'total', no two
\* with the same (date, chain).
C19_OneRowPerReportedChain ==
    (ret.st = "returned" /\ arg.tvl > 0) =>
        /\ Len(ret.rows) = 1 + Len(arg.chainTvls)
        /\ Cardinality({i \in 1..Len(ret.rows) : ret.rows[i].chain = 0}) = 1
        /\ \A i, j \in 1..Len(ret.rows) :
              i < j => ~SameKey(ret.rows[i], ret.rows[j], {"date", "chain"})

\* C20: in the efetch revision the TVL table never holds two rows with the
\* same (date, chain), however many runs wrote to it, several runs of one
\* calendar day included.
C20_ETvlKeyedByDateChain ==
    LET f == files["extended_tvl_data.csv"]
    IN (run.rev = "efetch" /\ f.st = "ok") =>
          \A i, j \in 1..Len(f.rows) :
              i < j => ~SameKey(f.rows[i], f.rows[j], {"date", "chain"})

\* ------------------------------------------------- claims on the upload
\* C21: main of upload_to_dune.py exits with status 0 exactly when at least
\* one mapped file present in uploads/ was uploaded successfully; it exits
\* nonzero without the API key, without the uploads directory, without any
\* mapped file, and when every upload fails; some uploads failing beside one
\* that succeeded still gives 0.
C21_UploadExitStatus ==
    up.pc = "done" =>
        /\ up.status \in {0, 1}
        /\ up.status = 0 <=> up.uploaded # {}
        /\ up.uploaded \subseteq
              {file_mappings[i] : i \in {j \in 1..Len(file_mappings) :
                                            env.files[j] # "absent"}}
        /\ (~env.api_key \/ env.uploads # "dir") => up.status # 0
        /\ (\A i \in 1..Len(file_mappings) : env.files[i] = "absent") => up.status # 0
        /\ (up.total_files > 0 /\ up.success_count = 0) => up.status # 0
        /\ (0 < up.success_count /\ up.success_count < up.total_files) => up.status = 0

\* Two mapped files present, one uploaded and one failed, exit status 0.
C21_PartialFailureExitsZero ==
    /\ up.pc = "done"
    /\ up.total_files = 2
    /\ up.success_count = 1
    /\ Cardinality(up.uploaded) = 1
    /\ up.status = 0

\* Letters, digits and underscores only.
IsClean(name) == \A i \in 1..Len(name) : name[i] \in {"a", "_"}

\* C22: whatever the column names of the CSV, every column name of the table
\* handed to Dune, by dune-client or by curl, has letters, digits and
\* underscores only.
C22_ColumnsSanitized ==
    up.sent.via # "none" =>
        \A k \in 1..Len(up.sent.columns) : IsClean(up.sent.columns[k])

\* ------------------------------------------ claims on the request loop
\* C23: within one fetch each delay is twice the delay before it, a fetch
\* that succeeded slept once per failed attempt, and a fetch that gave up
\* did not sleep after its last attempt.
C23_ExponentialBackoff ==
    /\ \A k \in 1..(Len(req.slept) - 1) : req.slept[k + 1] = 2 * req.slept[k]
    /\ last.result = "body" => Len(last.slept) = last.failed
    /\ last.result \in {"None", "raise"} => Len(last.slept) = last.failed - 1

\* ------------------------------------- claims on the trading statistics
RECURSIVE VolumeOf(_)
VolumeOf(entries) ==
    IF Len(entries) = 0 THEN 0
    ELSE (IF Head(entries).tradingVolume = Absent THEN 0 ELSE Head(entries).tradingVolume)
           + VolumeOf(Tail(entries))

Has(rec, field) == field \in DOMAIN rec

\* C24: fetch_trading_stats gives daily_volume the sum of the entries'
\* tradingVolume (0 for an entry without one), trades_count their number n,
\* unique_traders the number of distinct non-empty traders and avg_trade_size
\* daily_volume / n; all four are 0 when n = 0 or the payload is missing.
C24_TradingAggregation ==
    ret.st = "returned" =>
        LET stats == ret.rows[1]
            n == Len(arg.data)
            traders == {arg.data[i].trader : i \in 1..n} \ {Absent, EMPTY}
        IN /\ \A f \in {"daily_volume", "trades_count", "unique_traders",
                         "avg_trade_size"} : Has(stats, f)
           /\ stats.daily_volume = VolumeOf(arg.data)
           /\ stats.trades_count = n
           /\ stats.unique_traders = Cardinality(traders)
           /\ stats.avg_trade_size = (IF n = 0 THEN 0 ELSE VolumeOf(arg.data) \div n)

\* ------------------------------------------- claims on the requests made
\* C25: in fetch_data_to_dune.py the funding and order book endpoints of a
\* chain are requested only when the chain's markets fetch gave a record, and
\* the order book is requested for the first TopMarkets names of the chain
\* only: at most TopMarkets fetches, hence at most TopMarkets * MAX_RETRIES
\* attempts, per chain.
C25_GatedAndBounded ==
    (run.rev = "fetch" /\ run.pc \in {"funding", "orderbook"}) =>
        /\ Len(run.names) > 0
        /\ \E i \in 1..Len(run.all_markets_data) :
              run.all_markets_data[i].chain = Chains[run.chain]
        /\ run.pc = "orderbook" =>
              /\ run.oi <= TopMarkets
              /\ run.oi <= Len(run.names)
              /\ (run.oi - 1) * MAX_RETRIES + req.made + 1 <= TopMarkets * MAX_RETRIES

\* The last attempt of the last order book fetch of a chain that has more
\* markets than are asked for.
C25_LastOrderbookAttempt ==
    /\ run.rev = "fetch"
    /\ run.pc = "orderbook"
    /\ Len(run.names) > TopMarkets
    /\ run.oi = TopMarkets
    /\ req.made = MAX_RETRIES - 1

StreamOrder ==
    <<"extended_markets_data.csv", "extended_funding_rates.csv",
      "extended_orderbook_snapshots.csv", "extended_trading_stats.csv",
      "extended_tvl_data.csv">>
PlaceOf(name) == CHOOSE k \in 1..Len(StreamOrder) : StreamOrder[k] = name
Modified == {k \in 1..Len(StreamOrder) : files[StreamOrder[k]] # hist.files0[StreamOrder[k]]}
LastWritten == IF Len(hist.log) = 0 THEN 0 ELSE PlaceOf(hist.log[Len(hist.log)])

\* C27 as stated: at every point of a run of fetch_data_to_dune.py the tables
\* the run has modified are a prefix of markets, funding, order book, trading
\* statistics, TVL, and every later table is what it was before the run.
C27_ModifiedIsPrefix ==
    run.rev = "fetch" =>
        \E k \in 0..Len(StreamOrder) :
            /\ Modified = 1..k
            /\ \A j \in (k + 1)..Len(StreamOrder) :
                  files[StreamOrder[j]] = hist.files0[StreamOrder[j]]

\* C27 amended: the tables are written in that order, a stream with nothing
\* to save being passed over, and at every point of the run every table
\* later in the order than the last one written is what it was before the
\* run.
C27_WrittenInOrderLaterUntouched ==
    run.rev = "fetch" =>
        /\ \A i, j \in 1..Len(hist.log) :
              i < j => PlaceOf(hist.log[i]) < PlaceOf(hist.log[j])
        /\ \A j \in (LastWritten + 1)..Len(StreamOrder) :
              files[StreamOrder[j]] = hist.files0[StreamOrder[j]]

\* The run has written markets and funding and is collecting trading
\* statistics; the trading and TVL tables it found are still there.
C27_KilledBeforeTrading ==
    /\ run.rev = "fetch"
    /\ run.pc = "trading"
    /\ hist.log = <<"extended_markets_data.csv", "extended_funding_rates.csv">>
    /\ hist.files0["extended_trading_stats.csv"].st = "ok"
    /\ files["extended_markets_data.csv"] # hist.files0["extended_markets_data.csv"]

\* ------------------------------------- claims on tables of both revisions
\* C28: when save_data_with_deduplication merges rows of which some have no
\* fetched_at (the TVL rows efetch wrote) with rows that have one, the rows
\* without are placed by their date: the table is most recent first by date,
\* and a row the cap discarded is no more recent than any row kept.
C28_SortFallbackPerRow ==
    LET name == "extended_tvl_data.csv"
        old == hist.files0[name].rows
        new == files[name].rows
    IN (run.rev = "fetch" /\ name \in hist.written /\ hist.files0[name].st = "ok") =>
          /\ \A i, j \in 1..Len(new) : i < j => new[i].date >= new[j].date
          /\ \A i \in 1..Len(old) :
                (\A j \in 1..Len(new) : ~SameKey(old[i], new[j], {"date", "chain"}))
                => \A j \in 1..Len(new) : old[i].date <= new[j].date

\* C30: when fetch_data_to_dune.py merges its batch into a markets table
\* that efetch wrote (rows without unique_id), every row the table held is
\* still in it afterwards, as long as the rows of the table and of the batch
\* together are within the cap.
C30_CrossRevisionHistoryKept ==
    LET name == "extended_markets_data.csv"
        old == hist.files0[name].rows
        new == files[name].rows
    IN (/\ run.rev = "fetch"
        /\ name \in hist.written
        /\ hist.files0 = CrossFiles
        /\ Len(old) + Len(run.all_markets_data) <= max_rows(name))
       => \A i \in 1..Len(old) :
             \E j \in 1..Len(new) :
                 /\ new[j].market = old[i].market
                 /\ new[j].chain = old[i].chain
                 /\ new[j].timestamp = old[i].timestamp

\* ----------------------------------------- claims on what a merge keeps
\* The concatenation a merge starts from: the rows read from the table, then
\* the batch.
Concatenation == Concat(ReadCsv(pre.rows), batch)

\* The row is in the table as written.
Present(row) == \E k \in 1..Len(TheFile.rows) : TheFile.rows[k] = ToCsvRow(row)

\* A later row of the concatenation has the row's key.
Superseded(i) ==
    \E j \in (i + 1)..Len(Concatenation) :
        SameKey(Concatenation[i], Concatenation[j], UniqueColumns(target))

\* The table is full and no row in it has a smaller sort value than the row.
Evicted(i) ==
    /\ Len(TheFile.rows) = Cap(target)
    /\ \A k \in 1..Len(TheFile.rows) :
          Concatenation[i][SortColumn(target)] <= TheFile.rows[k][SortColumn(target)]

\* C29: after save_data_with_deduplication merged a batch into a readable
\* table, a row of the table or of the batch is missing from the result only
\* if a later row of the concatenation has its key, or if the cap cut it, and
\* then no row kept has a smaller sort value.
C29_KeptUnlessSupersededOrEvicted ==
    (FetchStore /\ branch = "merge") =>
        \A i \in 1..Len(Concatenation) : Present(Concatenation[i]) \/ Superseded(i) \/ Evicted(i)

\* A merge that cut a row of the table which no row of the batch replaced.
C29_OldRowCutByCap ==
    /\ FetchStore
    /\ branch = "merge"
    /\ \E i \in 1..Len(pre.rows) :
          ~Present(Concatenation[i]) /\ ~Superseded(i) /\ Evicted(i)
    /\ \E i \in 1..Len(pre.rows) : ~Present(Concatenation[i]) /\ Superseded(i)

\* ------------------------------------------- claims on the end of the run
\* C31: every run of main of fetch_data_to_dune.py reaches its completion
\* message, having made at most one trading fetch per day of the lookback and
\* chain, order book fetches for the first TopMarkets markets only, and at
\* most MAX_RETRIES attempts per fetch, one request at a time.
C31_RunCompletesWithinBounds ==
    /\ [](run.rev = "fetch" =>
            /\ Len(run.trading_stats) <= Lookback * Len(Chains)
            /\ run.oi <= TopMarkets
            /\ req.made < MAX_RETRIES)
    /\ (run.rev = "fetch") ~> (run.pc = "done")

====
